---- MODULE Spec2Model ----
(***************************************************************************)
(* AutoReply Pro: the in-memory store (server/storage.ts), the AI gateway  *)
(* (server/services/openai.ts) and the REST handlers (server/routes.ts).   *)
(*                                                                         *)
(* A JavaScript object is a function from its keys (strings) to values; a  *)
(* key that is absent is outside the function's domain.  A JavaScript      *)
(* value is a tagged record, so that `typeof`, truthiness (||), nullish    *)
(* coalescing (??) and zod's type checks can be computed as the runtime    *)
(* computes them.  Confidence and rating numbers are carried in tenths     *)
(* (Num(5) is 0.5, Num(15) is 1.5); counters and times are whole numbers.  *)
(***************************************************************************)
EXTENDS Integers, Sequences, FiniteSets, TLC

VARIABLES
    users,        \* MemStorage.users        : id -> User
    templates,    \* MemStorage.templates    : id -> Template
    inquiries,    \* MemStorage.inquiries    : id -> Inquiry
    responses,    \* MemStorage.responses    : id -> Response
    integrations, \* MemStorage.integrations : id -> Integration
    analytics,    \* MemStorage.analytics    : id -> Analytics
    nextId,       \* number of ids randomUUID() has handed out so far
    now,          \* the wall clock read by `new Date()`
    last,         \* the most recent request or storage call and its answer
    requests,     \* history: how many requests and storage calls were served
    gw,           \* the most recent direct call of an AI gateway operation
    inflight      \* the intake requests awaiting the provider, and their locals

vars == <<users, templates, inquiries, responses, integrations, analytics,
          nextId, now, last, requests, gw, inflight>>

----------------------------------------------------------------------------
(* Bounds of the model                                                     *)

MaxRequests == 2       \* REST requests and storage calls served
MaxTime == 1           \* days the clock advances

----------------------------------------------------------------------------
(* JavaScript values                                                       *)

Undefined == [t |-> "undefined", s |-> "", n |-> 0]
Null == [t |-> "null", s |-> "", n |-> 0]
NaN == [t |-> "NaN", s |-> "", n |-> 0]
Str(x) == [t |-> "string", s |-> x, n |-> 0]
Num(k) == [t |-> "number", s |-> "", n |-> k]
Bool(b) == [t |-> "boolean", s |-> "", n |-> IF b THEN 1 ELSE 0]
Date(k) == [t |-> "date", s |-> "", n |-> k]
Arr(q) == [t |-> "array", s |-> "", n |-> 0, a |-> q]
Obj(f) == [t |-> "object", s |-> "", n |-> 0, o |-> f]

EmptyObject == [k \in {} |-> Undefined]

\* o[k] of JavaScript: undefined when the key is absent
Get(o, k) == IF k \in DOMAIN o THEN o[k] ELSE Undefined

\* { ...a, ...b }
Spread(a, b) == [k \in DOMAIN a \cup DOMAIN b |-> IF k \in DOMAIN b THEN b[k] ELSE a[k]]

\* the falsy values: undefined, null, "", 0, NaN, false
Truthy(v) ==
    ~ \/ v.t \in {"undefined", "null", "NaN"}
      \/ v.t = "string" /\ v.s = ""
      \/ v.t = "number" /\ v.n = 0
      \/ v.t = "boolean" /\ v.n = 0

\* v || d
OrElse(v, d) == IF Truthy(v) THEN v ELSE d

\* v ?? d
Coalesce(v, d) == IF v.t \in {"undefined", "null"} THEN d ELSE v

----------------------------------------------------------------------------
(* Validation: the insert schemas drizzle-zod derives from the tables.     *)
(* A column that is notNull without a default is required; every other     *)
(* column is optional and nullable.  Unknown keys are stripped.            *)

Col(ty, req) == [ty |-> ty, req |-> req]

TypeOk(ty, v) ==
    CASE ty = "string"  -> v.t = "string"
      [] ty = "boolean" -> v.t = "boolean"
      [] ty = "integer" -> v.t = "number"
      [] ty = "json"    -> v.t \in {"string", "number", "boolean", "null", "array", "object"}

FieldOk(col, v) ==
    IF col.req THEN TypeOk(col.ty, v)
    ELSE v.t \in {"undefined", "null"} \/ TypeOk(col.ty, v)

\* schema.parse(o): throws (ok = FALSE) or returns o restricted to the schema's keys
ZodParse(schema, o) ==
    [ok   |-> \A k \in DOMAIN schema : FieldOk(schema[k], Get(o, k)),
     data |-> [k \in DOMAIN schema \cap DOMAIN o |-> o[k]]]

insertTemplateSchema ==
    [userId      |-> Col("string", TRUE),
     name        |-> Col("string", TRUE),
     category    |-> Col("string", TRUE),
     subject     |-> Col("string", FALSE),
     content     |-> Col("string", TRUE),
     variables   |-> Col("json", FALSE),
     isActive    |-> Col("boolean", FALSE),
     successRate |-> Col("integer", FALSE),
     timesUsed   |-> Col("integer", FALSE)]

insertInquirySchema ==
    [userId           |-> Col("string", TRUE),
     subject          |-> Col("string", FALSE),
     content          |-> Col("string", TRUE),
     category         |-> Col("string", FALSE),
     priority         |-> Col("string", FALSE),
     source           |-> Col("string", FALSE),
     sender           |-> Col("string", FALSE),
     aiClassification |-> Col("json", FALSE)]

insertIntegrationSchema ==
    [userId      |-> Col("string", TRUE),
     platform    |-> Col("string", TRUE),
     isActive    |-> Col("boolean", FALSE),
     credentials |-> Col("json", FALSE),
     settings    |-> Col("json", FALSE)]

insertResponseSchema ==
    [inquiryId        |-> Col("string", TRUE),
     templateId       |-> Col("string", FALSE),
     content          |-> Col("string", TRUE),
     isAutomated      |-> Col("boolean", FALSE),
     wasModified      |-> Col("boolean", FALSE),
     customerFeedback |-> Col("integer", FALSE),
     success          |-> Col("boolean", FALSE)]

----------------------------------------------------------------------------
(* MemStorage.  Each operation is given the map it works on and returns    *)
(* the map it leaves behind together with its result.                      *)

\* randomUUID(): the k-th identifier handed out
randomUUID(k) == "uuid-" \o ToString(k)

\* variant: a map that keeps only the record set last
MapSet_Only(m, k, v) == [x \in {k} |-> v]

\* Map.set(k, v)
MapSet(m, k, v) == [x \in DOMAIN m \cup {k} |-> IF x = k THEN v ELSE m[x]]

\* Map.delete(k)
MapDelete(m, k) == [x \in DOMAIN m \ {k} |-> m[x]]

\* Array.find over Map.values(): the first match in insertion order, which
\* is the order in which the ids were handed out; a set of at most one id
getUserByUsername(umap, username) ==
    LET matches == {k \in 1..nextId : /\ randomUUID(k) \in DOMAIN umap
                                      /\ umap[randomUUID(k)].username = Str(username)}
    IN  {randomUUID(k) : k \in {m \in matches : \A j \in matches : m <= j}}

\* variant: the username serves as the id
createUser_ByName(insertUser, id) == Spread(insertUser, [id |-> insertUser.username])

createUser(insertUser, id) == Spread(insertUser, [id |-> Str(id)])

getTemplates(tmap, userId) ==
    {i \in DOMAIN tmap : tmap[i].userId = userId}

\* variant: the defaults applied with || instead of ??
createTemplate_OrDefaults(insertTemplate, id, t) ==
    Spread(insertTemplate,
           [id          |-> Str(id),
            createdAt   |-> Date(t),
            updatedAt   |-> Date(t),
            isActive    |-> OrElse(Get(insertTemplate, "isActive"), Bool(TRUE)),
            successRate |-> OrElse(Get(insertTemplate, "successRate"), Num(0)),
            timesUsed   |-> OrElse(Get(insertTemplate, "timesUsed"), Num(0)),
            variables   |-> OrElse(Get(insertTemplate, "variables"), Arr(<<>>)),
            subject     |-> OrElse(Get(insertTemplate, "subject"), Null)])

createTemplate(insertTemplate, id, t) ==
    Spread(insertTemplate,
           [id          |-> Str(id),
            createdAt   |-> Date(t),
            updatedAt   |-> Date(t),
            isActive    |-> Coalesce(Get(insertTemplate, "isActive"), Bool(TRUE)),
            successRate |-> Coalesce(Get(insertTemplate, "successRate"), Num(0)),
            timesUsed   |-> Coalesce(Get(insertTemplate, "timesUsed"), Num(0)),
            variables   |-> Coalesce(Get(insertTemplate, "variables"), Arr(<<>>)),
            subject     |-> Coalesce(Get(insertTemplate, "subject"), Null)])

\* variant: the timestamp is set first, so that the payload's fields win
updateTemplate_PayloadWins(tmap, id, updates, t) ==
    IF id \notin DOMAIN tmap
    THEN [found |-> FALSE, map |-> tmap]
    ELSE [found |-> TRUE,
          map   |-> MapSet(tmap, id,
                           Spread(Spread(tmap[id], [updatedAt |-> Date(t)]), updates))]

updateTemplate(tmap, id, updates, t) ==
    IF id \notin DOMAIN tmap
    THEN [found |-> FALSE, map |-> tmap]
    ELSE [found |-> TRUE,
          map   |-> MapSet(tmap, id,
                           Spread(Spread(tmap[id], updates), [updatedAt |-> Date(t)]))]

\* variant: the result of Map.delete is dropped and success is reported
deleteTemplate_AlwaysTrue(tmap, id) ==
    [deleted |-> TRUE, map |-> MapDelete(tmap, id)]

deleteTemplate(tmap, id) ==
    [deleted |-> id \in DOMAIN tmap, map |-> MapDelete(tmap, id)]

createInquiry(insertInquiry, id, t) ==
    Spread(insertInquiry,
           [id               |-> Str(id),
            createdAt        |-> Date(t),
            category         |-> Coalesce(Get(insertInquiry, "category"), Null),
            priority         |-> Coalesce(Get(insertInquiry, "priority"), Str("normal")),
            source           |-> Coalesce(Get(insertInquiry, "source"), Str("email")),
            sender           |-> Coalesce(Get(insertInquiry, "sender"), Null),
            aiClassification |-> Coalesce(Get(insertInquiry, "aiClassification"), Null),
            subject          |-> Coalesce(Get(insertInquiry, "subject"), Null)])

createResponse(insertResponse, id, t) ==
    Spread(insertResponse,
           [id               |-> Str(id),
            sentAt           |-> Date(t),
            isAutomated      |-> Coalesce(Get(insertResponse, "isAutomated"), Bool(TRUE)),
            wasModified      |-> Coalesce(Get(insertResponse, "wasModified"), Bool(FALSE)),
            customerFeedback |-> Coalesce(Get(insertResponse, "customerFeedback"), Null),
            success          |-> Coalesce(Get(insertResponse, "success"), Null),
            templateId       |-> Coalesce(Get(insertResponse, "templateId"), Null)])

\* variant: every update marks the response as modified
updateResponse_MarksModified(rmap, id, updates) ==
    IF id \notin DOMAIN rmap
    THEN [found |-> FALSE, map |-> rmap]
    ELSE [found |-> TRUE,
          map   |-> MapSet(rmap, id,
                           Spread(Spread(rmap[id], updates), [wasModified |-> Bool(TRUE)]))]

updateResponse(rmap, id, updates) ==
    IF id \notin DOMAIN rmap
    THEN [found |-> FALSE, map |-> rmap]
    ELSE [found |-> TRUE, map |-> MapSet(rmap, id, Spread(rmap[id], updates))]

\* variant: looks the record up by its position, not by its id
getTemplate_First(tmap, id) ==
    IF tmap = EmptyObject THEN {} ELSE {CHOOSE i \in DOMAIN tmap : TRUE}

\* Map.get(id): the record stored under id, as a set of at most one key
getTemplate(tmap, id) == {i \in DOMAIN tmap : i = id}

getInquiries(imap, userId) ==
    {i \in DOMAIN imap : imap[i].userId = userId}

\* variant: every response is returned, whoever owns its inquiry
getResponsesByUser_All(imap, rmap, userId) == DOMAIN rmap

getResponsesByUser(imap, rmap, userId) ==
    LET inquiryIds == {imap[i].id : i \in getInquiries(imap, userId)}
    IN  {r \in DOMAIN rmap : rmap[r].inquiryId \in inquiryIds}

createIntegration(insertIntegration, id, t) ==
    Spread(insertIntegration,
           [id          |-> Str(id),
            createdAt   |-> Date(t),
            isActive    |-> Coalesce(Get(insertIntegration, "isActive"), Bool(FALSE)),
            credentials |-> Coalesce(Get(insertIntegration, "credentials"), Null),
            settings    |-> Coalesce(Get(insertIntegration, "settings"), Obj(EmptyObject)),
            lastSync    |-> Null])

\* variant: an unknown id is stored as a new record
updateIntegration_Upsert(gmap, id, updates) ==
    [found |-> TRUE,
     map   |-> MapSet(gmap, id,
                      Spread(IF id \in DOMAIN gmap THEN gmap[id] ELSE EmptyObject, updates))]

updateIntegration(gmap, id, updates) ==
    IF id \notin DOMAIN gmap
    THEN [found |-> FALSE, map |-> gmap]
    ELSE [found |-> TRUE, map |-> MapSet(gmap, id, Spread(gmap[id], updates))]

\* analytics.date && analytics.date >= cutoffDate, the clock read in days
InWindow(date, days, t) ==
    Truthy(date) /\ date.t = "date" /\ days.t = "number" /\ date.n >= t - days.n

getAnalytics(amap, userId, days, t) ==
    LET userAnalytics == {a \in DOMAIN amap : amap[a].userId = userId}
    IN  IF Truthy(days)
        THEN {a \in userAnalytics : InWindow(amap[a].date, days, t)}
        ELSE userAnalytics

createAnalytics(insertAnalytics, id, t) ==
    Spread(insertAnalytics,
           [id                   |-> Str(id),
            date                 |-> Date(t),
            totalInquiries       |-> Coalesce(Get(insertAnalytics, "totalInquiries"), Num(0)),
            automatedResponses   |-> Coalesce(Get(insertAnalytics, "automatedResponses"), Num(0)),
            manualResponses      |-> Coalesce(Get(insertAnalytics, "manualResponses"), Num(0)),
            averageResponseTime  |-> Coalesce(Get(insertAnalytics, "averageResponseTime"), Num(0)),
            customerSatisfaction |-> Coalesce(Get(insertAnalytics, "customerSatisfaction"), Num(0)),
            timeSaved            |-> Coalesce(Get(insertAnalytics, "timeSaved"), Num(0))])

updateAnalytics(amap, id, updates) ==
    IF id \notin DOMAIN amap
    THEN [found |-> FALSE, map |-> amap]
    ELSE [found |-> TRUE, map |-> MapSet(amap, id, Spread(amap[id], updates))]

----------------------------------------------------------------------------
(* The AI gateway.  The provider is outside the program: its reply to one  *)
(* chat.completions.create call is an input.                               *)
(*   error     the call rejects (network, timeout, API error)              *)
(*   nochoices the response carries no choices[0].message                  *)
(*   garbage   message.content is not JSON text                            *)
(*   null      message.content is the JSON text `null`                     *)
(*   empty     message.content is null or ""  (read as "{}")               *)
(*   object    message.content is a JSON object, `payload`                 *)

Reply(kind, payload) == [kind |-> kind, payload |-> payload]

\* does the try block throw before or while the result's fields are read?
Throws(reply) == reply.kind \in {"error", "nochoices", "garbage", "null"}

\* JSON.parse(response.choices[0].message.content || "{}")
ParsedResult(reply) == IF reply.kind = "object" THEN reply.payload ELSE EmptyObject

ConfidenceMin == 0        \* 0.0
ConfidenceMax == 10       \* 1.0
ConfidenceDefault == 5    \* 0.5
RatingMin == 10           \* 1
RatingMax == 50           \* 5
RatingDefault == 30       \* 3

Min(a, b) == IF a < b THEN a ELSE b
Max(a, b) == IF a > b THEN a ELSE b

\* the number a value is coerced to by Math.min / Math.max / Math.round;
\* the strings, arrays and objects of this model are not numeric
ToNumber(v) ==
    CASE v.t = "number"  -> v
      [] v.t = "boolean" -> Num(v.n * 10)
      [] v.t = "null"    -> Num(0)
      [] OTHER           -> NaN

\* variant: Math.max(0, v), the upper clamp forgotten
Clamp01_NoUpper(v) ==
    LET x == ToNumber(v)
    IN  IF x.t = "NaN" THEN NaN ELSE Num(Max(ConfidenceMin, x.n))

\* Math.max(0, Math.min(1, v))
Clamp01(v) ==
    LET x == ToNumber(v)
    IN  IF x.t = "NaN" THEN NaN ELSE Num(Max(ConfidenceMin, Min(ConfidenceMax, x.n)))

\* Math.max(1, Math.min(5, Math.round(v)))
ClampRating(v) ==
    LET x == ToNumber(v)
    IN  IF x.t = "NaN" THEN NaN
        ELSE Num(Max(RatingMin, Min(RatingMax, ((x.n + 5) \div 10) * 10)))

Returned(value) == [raised |-> FALSE, value |-> value]
Raised == [raised |-> TRUE, value |-> EmptyObject]

\* variant: the catch block answers with the priority "urgent"
ClassifyFallback_Urgent ==
    [category          |-> Str("general"),
     priority          |-> Str("urgent"),
     intent            |-> Str("Unable to classify inquiry"),
     confidence        |-> Num(0),
     requiredVariables |-> Arr(<<>>)]

\* what classifyInquiry's catch block returns
ClassifyFallback ==
    [category          |-> Str("general"),
     priority          |-> Str("normal"),
     intent            |-> Str("Unable to classify inquiry"),
     confidence        |-> Num(0),
     requiredVariables |-> Arr(<<>>)]

classifyInquiry(subject, content, existingTemplates, reply) ==
    LET result == ParsedResult(reply)
    IN  IF Throws(reply)
        THEN Returned(ClassifyFallback)
        ELSE Returned([category            |-> OrElse(Get(result, "category"), Str("general")),
                       priority            |-> OrElse(Get(result, "priority"), Str("normal")),
                       intent              |-> OrElse(Get(result, "intent"), Str("General inquiry")),
                       confidence          |-> Clamp01(OrElse(Get(result, "confidence"), Num(ConfidenceDefault))),
                       requiredVariables   |-> OrElse(Get(result, "requiredVariables"), Arr(<<>>)),
                       suggestedTemplateId |-> OrElse(Get(result, "suggestedTemplateId"), Undefined)])

generateResponse(inquiryContent, templateContent, variables, reply) ==
    LET result == ParsedResult(reply)
    IN  IF Throws(reply)
        THEN Returned([content    |-> templateContent,
                       confidence |-> Num(0),
                       variables  |-> Obj(EmptyObject)])
        ELSE Returned([content    |-> OrElse(Get(result, "content"), templateContent),
                       confidence |-> Clamp01(OrElse(Get(result, "confidence"), Num(ConfidenceDefault))),
                       variables  |-> OrElse(Get(result, "variables"), Obj(EmptyObject))])

analyzeSentiment(text, reply) ==
    LET result == ParsedResult(reply)
    IN  IF Throws(reply)
        THEN Returned([rating |-> Num(RatingDefault), confidence |-> Num(0)])
        ELSE Returned([rating     |-> ClampRating(OrElse(Get(result, "rating"), Num(RatingDefault))),
                       confidence |-> Clamp01(OrElse(Get(result, "confidence"), Num(ConfidenceDefault)))])

\* variant: JSON.parse and the reads of its result moved out of the try block
improveTemplate_NoCatch(templateContent, feedbackData, reply) ==
    LET result == ParsedResult(reply)
    IN  IF reply.kind = "error"
        THEN Returned([improvedContent |-> templateContent,
                       improvements    |-> Arr(<<>>),
                       confidence      |-> Num(0)])
        ELSE IF Throws(reply)
        THEN Raised
        ELSE Returned([improvedContent |-> OrElse(Get(result, "improvedContent"), templateContent),
                       improvements    |-> OrElse(Get(result, "improvements"), Arr(<<>>)),
                       confidence      |-> Clamp01(OrElse(Get(result, "confidence"), Num(ConfidenceDefault)))])

\* feedbackData only feeds the prompt (its summary divides without throwing)
improveTemplate(templateContent, feedbackData, reply) ==
    LET result == ParsedResult(reply)
    IN  IF Throws(reply)
        THEN Returned([improvedContent |-> templateContent,
                       improvements    |-> Arr(<<>>),
                       confidence      |-> Num(0)])
        ELSE Returned([improvedContent |-> OrElse(Get(result, "improvedContent"), templateContent),
                       improvements    |-> OrElse(Get(result, "improvements"), Arr(<<>>)),
                       confidence      |-> Clamp01(OrElse(Get(result, "confidence"), Num(ConfidenceDefault)))])

----------------------------------------------------------------------------
(* The state after construction: initializeDemoData's user, templates,     *)
(* integrations and analytics.  Math.random() is a draw in tenths; one     *)
(* draw is used for every counter of the demo analytics.                   *)

DEMO_USER_ID == "jane.smith"

DemoUser == createUser([username |-> Str("jane.smith"), password |-> Str("password123")],
                       randomUUID(1))

DemoTemplate(k, name, category, subject, content, variables, successRate, timesUsed) ==
    createTemplate([userId      |-> DemoUser.id,
                    name        |-> Str(name),
                    category    |-> Str(category),
                    subject     |-> Str(subject),
                    content     |-> Str(content),
                    variables   |-> Arr(variables),
                    successRate |-> Num(successRate),
                    timesUsed   |-> Num(timesUsed)],
                   randomUUID(k), 0)

DemoTemplates ==
    MapSet(MapSet(MapSet(EmptyObject,
        randomUUID(2), DemoTemplate(2, "Project Inquiry", "project", "Re: Project Inquiry",
            "Thank you for your interest in my services. I'd be happy to discuss your project requirements in detail. Could you please provide more information about your timeline and budget?",
            <<"projectType", "timeline", "budget">>, 96, 34)),
        randomUUID(3), DemoTemplate(3, "Pricing Request", "pricing", "Re: Pricing Information",
            "Thank you for reaching out. I'd be happy to provide a quote for your project. My rates vary based on project complexity and timeline. Let's schedule a brief call to discuss your needs.",
            <<"serviceType", "projectScope">>, 89, 28)),
        randomUUID(4), DemoTemplate(4, "Availability Check", "availability", "Re: Availability Inquiry",
            "Thanks for your message. I currently have availability starting next week. I'd love to learn more about your project to see if we're a good fit. When would be convenient for a quick call?",
            <<"startDate", "projectDuration">>, 84, 19))

DemoIntegration(k, platform, credentials, settings) ==
    createIntegration([userId      |-> DemoUser.id,
                       platform    |-> Str(platform),
                       isActive    |-> Bool(TRUE),
                       credentials |-> Obj(credentials),
                       settings    |-> Obj(settings)],
                      randomUUID(k), 0)

DemoIntegrations ==
    MapSet(MapSet(EmptyObject,
        randomUUID(5), DemoIntegration(5, "Gmail", [email |-> Str("jane.smith@email.com")],
            [autoReply |-> Bool(TRUE), categories |-> Arr(<<"project", "pricing">>)])),
        randomUUID(6), DemoIntegration(6, "Slack", [workspace |-> Str("freelance-team")],
            [autoReply |-> Bool(FALSE)]))

\* the values Math.random() takes here, in tenths
Draws == {0, 9}

\* Math.floor(Math.random() * n) + lo
RandomInt(r, n, lo) == ((r * n) \div 10) + lo

DemoDays == 7

\* every demo record is stamped by createAnalytics with the time of construction
DemoAnalytics(r) ==
    [id \in {randomUUID(6 + i) : i \in 1..DemoDays} |->
        createAnalytics([userId               |-> DemoUser.id,
                         totalInquiries       |-> Num(RandomInt(r, 10, 5)),
                         automatedResponses   |-> Num(RandomInt(r, 8, 3)),
                         manualResponses      |-> Num(RandomInt(r, 3, 1)),
                         averageResponseTime  |-> Num(RandomInt(r, 300, 60)),
                         customerSatisfaction |-> Num(RandomInt(r, 20, 80)),
                         timeSaved            |-> Num(RandomInt(r, 120, 60))],
                        id, 0)]

NoReply == Reply("none", EmptyObject)

\* the record of one served request or storage call: `result` is the record
\* it returned (if any), `list` the keys of the records a listing returned,
\* `feedbackData` what the handler handed to improveTemplate
Served(op, status, id, body) ==
    [op |-> op, status |-> status, id |-> id, body |-> body,
     classify |-> NoReply, generate |-> NoReply,
     classification |-> EmptyObject, responseId |-> "", again |-> FALSE,
     result |-> EmptyObject, list |-> {}, days |-> Undefined,
     feedbackData |-> EmptyObject]

NoCall == [op |-> "none", reply |-> NoReply, content |-> Undefined,
           raised |-> FALSE, value |-> EmptyObject]

Init ==
    /\ users = MapSet(EmptyObject, randomUUID(1), DemoUser)
    /\ templates = DemoTemplates
    /\ inquiries = EmptyObject
    /\ responses = EmptyObject
    /\ integrations = DemoIntegrations
    /\ \E r \in Draws : analytics = DemoAnalytics(r)
    /\ nextId = 6 + DemoDays
    /\ now = 0
    /\ last = Served("none", 0, "", EmptyObject)
    /\ requests = 0
    /\ gw = NoCall
    /\ inflight = EmptyObject

----------------------------------------------------------------------------
(* What the outside world may send.                                        *)

UnknownId == "uuid-0"     \* an id no record was ever stored under

\* the template ids requests and provider replies name: two of the demo
\* templates, the templates created since, and an unknown id
TemplateIds ==
    {randomUUID(2), randomUUID(3), UnknownId}
    \cup (DOMAIN templates \ {randomUUID(4)})

InquiryBodies ==
    { [content |-> Str("Need a quote ASAP")],
      [subject |-> Str("Quote"), content |-> Str("Need a quote ASAP"),
       userId |-> Str("intruder"), category |-> Str("spam"), priority |-> Str("low"),
       aiClassification |-> Obj([category |-> Str("spam"), priority |-> Str("low")])],
      [subject |-> Str("Quote")],
      [content |-> Str("Need a quote ASAP"), sender |-> Num(5)] }

\* a body that passes insertInquirySchema on its own fields
ValidInquiryBody(body) ==
    ZodParse(insertInquirySchema, Spread(body, [userId |-> Str("owner")])).ok

ClassifyPayload(category, priority, confidence, suggestion) ==
    [category |-> category, priority |-> priority, intent |-> Str("wants a quote"),
     confidence |-> confidence, requiredVariables |-> Arr(<<"serviceType">>),
     suggestedTemplateId |-> suggestion]

Failures == {Reply(k, EmptyObject) : k \in {"error", "nochoices", "garbage", "null"}}

Suggestions == {Null} \cup {Str(i) : i \in TemplateIds}

ClassifyReplies ==
    Failures
    \cup {Reply("empty", EmptyObject)}
    \cup {Reply("object", ClassifyPayload(Str("pricing"), Str("urgent"), Num(9), sg)) :
             sg \in Suggestions}
    \cup {Reply("object", ClassifyPayload(Str("pricing"), p, Num(15), Str(randomUUID(2)))) :
             p \in {Str("critical"), Num(5)}}

GenerateReplies ==
    { Reply("error", EmptyObject),
      Reply("object", [content |-> Str("Happy to send a quote."), confidence |-> Num(8),
                       variables |-> Obj([serviceType |-> Str("design")])]) }

----------------------------------------------------------------------------
(* The REST handlers.  The owner lookup, the validation, the gateway calls *)
(* and the storage calls of one request happen in one step.                *)

\* storage.getUserByUsername(DEMO_USER_ID): the owner, as a set of at most one id
Owner == getUserByUsername(users, DEMO_USER_ID)

\* a + k of JavaScript for the operands that occur here
JsAdd(v, k) == IF v.t \in {"number", "boolean"} THEN Num(v.n + k) ELSE NaN

\* variant: the request body spread last, so that its fields win
IntakeInsert_BodyWins(body, user, classification) ==
    Spread([userId           |-> user.id,
            category         |-> classification.category,
            priority         |-> classification.priority,
            aiClassification |-> Obj(classification)], body)

\* variant: a missing content replaced by the empty string before validation
IntakeInsert_ContentDefault(body, user, classification) ==
    Spread([content |-> Str("")],
           Spread(body, [userId           |-> user.id,
                         category         |-> classification.category,
                         priority         |-> classification.priority,
                         aiClassification |-> Obj(classification)]))

\* the object POST /api/inquiries hands to insertInquirySchema.parse
IntakeInsert(body, user, classification) ==
    Spread(body, [userId           |-> user.id,
                  category         |-> classification.category,
                  priority         |-> classification.priority,
                  aiClassification |-> Obj(classification)])

\* does the handler go on to generate a response?
Suggested(classification) ==
    LET sg == Get(classification, "suggestedTemplateId")
    IN  Truthy(sg) /\ sg.t = "string" /\ sg.s \in DOMAIN templates

\* variant: the response filed under an inquiry id that was never stored
IntakeResponse_NoInquiry(inquiry, template, generation) ==
    [inquiryId   |-> Str(UnknownId),
     templateId  |-> template.id,
     content     |-> generation.content,
     isAutomated |-> Bool(TRUE),
     wasModified |-> Bool(FALSE)]

\* the object POST /api/inquiries hands to storage.createResponse
IntakeResponse(inquiry, template, generation) ==
    [inquiryId   |-> inquiry.id,
     templateId  |-> template.id,
     content     |-> generation.content,
     isAutomated |-> Bool(TRUE),
     wasModified |-> Bool(FALSE)]

\* the update POST /api/inquiries hands to storage.updateTemplate
IntakeUsage(template) ==
    [timesUsed |-> JsAdd(OrElse(template.timesUsed, Num(0)), 1)]

PostInquiry(body, creply, greply) ==
    LET op == "POST /api/inquiries"
        unchanged == UNCHANGED <<templates, inquiries, responses, nextId>>
    IN
    /\ requests < MaxRequests
    /\ requests' = requests + 1
    /\ UNCHANGED <<users, integrations, analytics, now, gw, inflight>>
    /\ IF Owner = {}
       THEN /\ last' = Served(op, 404, "", body)
            /\ unchanged
       ELSE
       LET user == users[CHOOSE u \in Owner : TRUE]
           existing == getTemplates(templates, user.id)
           call == classifyInquiry(OrElse(Get(body, "subject"), Str("")),
                                   Get(body, "content"), existing, creply)
           classification == call.value
           parsed == ZodParse(insertInquirySchema, IntakeInsert(body, user, classification))
           iid == randomUUID(nextId + 1)
           inquiry == createInquiry(parsed.data, iid, now)
           served == [Served(op, 201, iid, body) EXCEPT
                         !.classify = creply, !.classification = classification]
       IN
       IF call.raised \/ ~parsed.ok
       THEN /\ last' = [Served(op, 400, "", body) EXCEPT
                           !.classify = creply, !.classification = classification]
            /\ unchanged
       ELSE
       /\ inquiries' = MapSet(inquiries, iid, inquiry)
       /\ IF ~Suggested(classification)
          THEN /\ greply = NoReply
               /\ last' = served
               /\ nextId' = nextId + 1
               /\ UNCHANGED <<templates, responses>>
          ELSE
          LET template == templates[classification.suggestedTemplateId.s]
              gen == generateResponse(inquiry.content, template.content, EmptyObject, greply)
              rid == randomUUID(nextId + 2)
              response == createResponse(IntakeResponse(inquiry, template, gen.value), rid, now)
              update == updateTemplate(templates, template.id.s, IntakeUsage(template), now)
          IN
          /\ greply # NoReply
          /\ IF gen.raised
             THEN /\ last' = [served EXCEPT !.status = 400, !.generate = greply]
                  /\ nextId' = nextId + 1
                  /\ UNCHANGED <<templates, responses>>
             ELSE /\ responses' = MapSet(responses, rid, response)
                  /\ nextId' = nextId + 2
                  /\ templates' = update.map
                  /\ last' = [served EXCEPT !.generate = greply, !.responseId = rid]

TemplateBodies ==
    { [name |-> Str("Support"), category |-> Str("support"), content |-> Str("We are on it.")],
      [name |-> Str("Support"), category |-> Str("support"), content |-> Str("We are on it."),
       userId |-> Str("intruder"), isActive |-> Bool(FALSE), timesUsed |-> Num(5)],
      [name |-> Str("Support")] }

PostTemplate(body) ==
    LET op == "POST /api/templates"
    IN
    /\ requests < MaxRequests
    /\ requests' = requests + 1
    /\ UNCHANGED <<users, inquiries, responses, integrations, analytics, now, gw, inflight>>
    /\ IF Owner = {}
       THEN /\ last' = Served(op, 404, "", body)
            /\ UNCHANGED <<templates, nextId>>
       ELSE
       LET user == users[CHOOSE u \in Owner : TRUE]
           parsed == ZodParse(insertTemplateSchema, Spread(body, [userId |-> user.id]))
           id == randomUUID(nextId + 1)
       IN
       IF ~parsed.ok
       THEN /\ last' = Served(op, 400, "", body)
            /\ UNCHANGED <<templates, nextId>>
       ELSE /\ templates' = MapSet(templates, id, createTemplate(parsed.data, id, now))
            /\ nextId' = nextId + 1
            /\ last' = Served(op, 201, id, body)

\* bodies of PUT /api/templates/:id; the handler passes req.body on unvalidated
TemplateUpdates ==
    { EmptyObject,
      [timesUsed |-> Null, isActive |-> Bool(FALSE), userId |-> Str("intruder")],
      [id |-> Str(randomUUID(3))],
      [id |-> Str(UnknownId)] }

PutTemplate(id, body) ==
    LET op == "PUT /api/templates/:id"
        update == updateTemplate(templates, id, body, now)
    IN
    /\ requests < MaxRequests
    /\ requests' = requests + 1
    /\ UNCHANGED <<users, inquiries, responses, integrations, analytics, nextId, now, gw, inflight>>
    /\ IF ~update.found
       THEN /\ last' = Served(op, 404, id, body)
            /\ UNCHANGED templates
       ELSE /\ templates' = update.map
            /\ last' = Served(op, 200, id, body)

DeleteTemplate(id) ==
    LET op == "DELETE /api/templates/:id"
        removal == deleteTemplate(templates, id)
    IN
    /\ requests < MaxRequests
    /\ requests' = requests + 1
    /\ UNCHANGED <<users, inquiries, responses, integrations, analytics, nextId, now, gw, inflight>>
    /\ templates' = removal.map
    /\ last' = [Served(op, IF removal.deleted THEN 204 ELSE 404, id, EmptyObject) EXCEPT
                   !.again = (last.op = op /\ last.id = id /\ last.status = 204)]

InquiryIds == DOMAIN inquiries \cup {UnknownId}

ResponseBodies ==
    {[inquiryId |-> Str(i), content |-> Str("Written by hand.")] : i \in InquiryIds}
    \cup {[inquiryId |-> Str(i), templateId |-> Str(randomUUID(2)),
           content |-> Str("From a template."),
           isAutomated |-> Bool(FALSE), wasModified |-> Bool(TRUE),
           customerFeedback |-> Num(2), success |-> Bool(FALSE)] : i \in InquiryIds}
    \cup {[content |-> Str("No inquiry.")]}

PostResponse(body) ==
    LET op == "POST /api/responses"
        parsed == ZodParse(insertResponseSchema, body)
        id == randomUUID(nextId + 1)
    IN
    /\ requests < MaxRequests
    /\ requests' = requests + 1
    /\ UNCHANGED <<users, templates, inquiries, integrations, analytics, now, gw, inflight>>
    /\ IF ~parsed.ok
       THEN /\ last' = Served(op, 400, "", body)
            /\ UNCHANGED <<responses, nextId>>
       ELSE /\ responses' = MapSet(responses, id, createResponse(parsed.data, id, now))
            /\ nextId' = nextId + 1
            /\ last' = Served(op, 201, id, body)

ResponseIds == DOMAIN responses \cup {UnknownId}

FeedbackBodies ==
    { EmptyObject,
      [customerFeedback |-> Num(4), success |-> Bool(TRUE)],
      [customerFeedback |-> Num(4)],
      [customerFeedback |-> Num(1), success |-> Bool(FALSE), content |-> Str("tampered"),
       templateId |-> Str(UnknownId), isAutomated |-> Bool(FALSE), id |-> Str(UnknownId)] }

\* variant: the whole request body handed to updateResponse
FeedbackUpdate_WholeBody(body) == body

\* const { customerFeedback, success } = req.body
FeedbackUpdate(body) ==
    [customerFeedback |-> Get(body, "customerFeedback"), success |-> Get(body, "success")]

PutFeedback(id, body) ==
    LET op == "PUT /api/responses/:id/feedback"
        update == updateResponse(responses, id, FeedbackUpdate(body))
    IN
    /\ requests < MaxRequests
    /\ requests' = requests + 1
    /\ UNCHANGED <<users, templates, inquiries, integrations, analytics, nextId, now, gw, inflight>>
    /\ IF ~update.found
       THEN /\ last' = Served(op, 404, id, body)
            /\ UNCHANGED responses
       ELSE /\ responses' = update.map
            /\ last' = Served(op, 200, id, body)

\* the provider's replies to the improvement prompt
ImproveReplies ==
    { Reply("error", EmptyObject),
      Reply("object", [improvedContent |-> Str("Thanks for reaching out!"),
                       improvements |-> Arr(<<"warmer greeting">>),
                       confidence |-> Num(8)]) }

\* responses.filter(r => r.templateId === id) over getResponsesByUser(userId)
templateResponses(imap, rmap, userId, id) ==
    {r \in getResponsesByUser(imap, rmap, userId) : rmap[r].templateId = Str(id)}

\* one record per response kept, under the response's id
feedbackData(rmap, kept) ==
    [r \in kept |-> [success          |-> OrElse(rmap[r].success, Bool(FALSE)),
                     customerFeedback |-> OrElse(rmap[r].customerFeedback, Undefined),
                     responseTime     |-> Num(0)]]

\* the :id of the request: a demo template, or an id never stored
ImproveIds == {randomUUID(2), UnknownId}

ImproveTemplate(id, reply) ==
    LET op == "POST /api/ai/improve-template/:id"
        found == getTemplate(templates, id)
    IN
    /\ requests < MaxRequests
    /\ requests' = requests + 1
    /\ UNCHANGED <<users, templates, inquiries, responses, integrations, analytics,
                   nextId, now, gw, inflight>>
    /\ IF found = {}
       THEN last' = Served(op, 404, id, EmptyObject)
       ELSE LET template == templates[CHOOSE i \in found : TRUE]
                kept == templateResponses(inquiries, responses, template.userId, id)
                data == feedbackData(responses, kept)
                improvement == improveTemplate(template.content, data, reply)
            IN  IF improvement.raised
                THEN last' = Served(op, 500, id, EmptyObject)
                ELSE last' = [Served(op, 200, id, EmptyObject)
                                EXCEPT !.result = improvement.value,
                                       !.feedbackData = data]

Next ==
    \/ \E body \in InquiryBodies, creply \in ClassifyReplies,
          greply \in GenerateReplies \cup {NoReply} : PostInquiry(body, creply, greply)
    \/ \E body \in TemplateBodies : PostTemplate(body)
    \/ \E id \in TemplateIds, body \in TemplateUpdates : PutTemplate(id, body)
    \/ \E id \in TemplateIds : DeleteTemplate(id)
    \/ \E body \in ResponseBodies : PostResponse(body)
    \/ \E id \in ResponseIds, body \in FeedbackBodies : PutFeedback(id, body)
    \/ \E id \in ImproveIds, reply \in ImproveReplies : ImproveTemplate(id, reply)

Spec == Init /\ [][Next]_vars

----------------------------------------------------------------------------
(* Direct calls of the four gateway operations, the provider's reply      *)
(* ranging over failures, empty output and payloads with every kind of     *)
(* confidence and rating.                                                  *)

Confidences ==
    {Num(-2), Num(0), Num(3), Num(5), Num(10), Num(15), Null, Str("high"), Bool(TRUE)}

Ratings == {Num(-10), Num(0), Num(24), Num(25), Num(40), Num(70), Str("good")}

Contents == {Str("Thank you for reaching out."), Str("")}

\* the replies to one call: the failures, no content, and `base` with and
\* without each of the given fields
RepliesOver(base, confidences) ==
    Failures
    \cup {Reply("empty", EmptyObject), Reply("object", EmptyObject), Reply("object", base)}
    \cup {Reply("object", Spread(base, [confidence |-> c])) : c \in confidences}

Called(op, reply, content, result) ==
    [op |-> op, reply |-> reply, content |-> content,
     raised |-> result.raised, value |-> result.value]

CallClassify(reply) ==
    /\ gw' = Called("classifyInquiry", reply, Str("Need a quote ASAP"),
                    classifyInquiry(Str(""), Str("Need a quote ASAP"), DOMAIN templates, reply))
    /\ UNCHANGED <<users, templates, inquiries, responses, integrations, analytics,
                   nextId, now, last, requests, inflight>>

CallGenerate(content, reply) ==
    /\ gw' = Called("generateResponse", reply, content,
                    generateResponse(Str("Need a quote ASAP"), content, EmptyObject, reply))
    /\ UNCHANGED <<users, templates, inquiries, responses, integrations, analytics,
                   nextId, now, last, requests, inflight>>

CallSentiment(reply) ==
    /\ gw' = Called("analyzeSentiment", reply, Str("Great service!"),
                    analyzeSentiment(Str("Great service!"), reply))
    /\ UNCHANGED <<users, templates, inquiries, responses, integrations, analytics,
                   nextId, now, last, requests, inflight>>

CallImprove(content, reply) ==
    /\ gw' = Called("improveTemplate", reply, content,
                    improveTemplate(content, <<>>, reply))
    /\ UNCHANGED <<users, templates, inquiries, responses, integrations, analytics,
                   nextId, now, last, requests, inflight>>

ClassifyCallReplies ==
    RepliesOver(ClassifyPayload(Str("pricing"), Str("urgent"), Num(9), Str(randomUUID(3))),
                Confidences)

GenerateCallReplies ==
    RepliesOver([content |-> Str("Happy to send a quote."),
                 variables |-> Obj([serviceType |-> Str("design")])], Confidences)

SentimentCallReplies ==
    RepliesOver([rating |-> Num(40)], Confidences)
    \cup {Reply("object", [rating |-> r, confidence |-> Num(7)]) : r \in Ratings}

ImproveCallReplies ==
    RepliesOver([improvedContent |-> Str("Thanks for reaching out!"),
                 improvements |-> Arr(<<"warmer greeting">>)], Confidences)

NextGateway ==
    \/ \E reply \in ClassifyCallReplies : CallClassify(reply)
    \/ \E content \in Contents, reply \in GenerateCallReplies : CallGenerate(content, reply)
    \/ \E reply \in SentimentCallReplies : CallSentiment(reply)
    \/ \E content \in Contents, reply \in ImproveCallReplies : CallImprove(content, reply)

SpecGateway == Init /\ [][NextGateway]_vars

----------------------------------------------------------------------------
(* The storage engine called directly, the clock, and the endpoints that   *)
(* pass straight through to it.  The clock is read in days: two reads      *)
(* between which it did not advance return the same Date.                  *)

\* the record of one storage call: what it was given and what it returned
Stored(op, id, payload, result) ==
    [Served(op, 0, id, payload) EXCEPT !.result = result]

Tick ==
    /\ now < MaxTime
    /\ now' = now + 1
    /\ UNCHANGED <<users, templates, inquiries, responses, integrations, analytics,
                   nextId, last, requests, gw, inflight>>

OtherUserId == "uuid-other"   \* the id of a second owner

UserIds == {DemoUser.id, Str(OtherUserId)}

UserPayloads ==
    { [username |-> Str("jane.smith"), password |-> Str("secret")],
      [username |-> Str("sam"), password |-> Str("secret")] }

CallCreateUser(insertUser) ==
    LET id == randomUUID(nextId + 1)
        user == createUser(insertUser, id)
    IN
    /\ requests < MaxRequests
    /\ requests' = requests + 1
    /\ users' = MapSet(users, id, user)
    /\ nextId' = nextId + 1
    /\ last' = Stored("createUser", id, insertUser, user)
    /\ UNCHANGED <<templates, inquiries, responses, integrations, analytics, now, gw, inflight>>

\* InsertTemplate values: only the required fields; every optional field
\* supplied; optional fields supplied as null
TemplatePayloads ==
    { [userId |-> DemoUser.id, name |-> Str("Support"), category |-> Str("support"),
       content |-> Str("We are on it.")],
      [userId |-> DemoUser.id, name |-> Str("Support"), category |-> Str("support"),
       content |-> Str("We are on it."), subject |-> Str("Re: Support"),
       variables |-> Arr(<<"ticket">>), isActive |-> Bool(FALSE),
       successRate |-> Num(50), timesUsed |-> Num(5)],
      [userId |-> DemoUser.id, name |-> Str("Support"), category |-> Str("support"),
       content |-> Str("We are on it."), subject |-> Null,
       isActive |-> Null, timesUsed |-> Null] }

CallCreateTemplate(insertTemplate) ==
    LET id == randomUUID(nextId + 1)
        template == createTemplate(insertTemplate, id, now)
    IN
    /\ requests < MaxRequests
    /\ requests' = requests + 1
    /\ templates' = MapSet(templates, id, template)
    /\ nextId' = nextId + 1
    /\ last' = Stored("createTemplate", id, insertTemplate, template)
    /\ UNCHANGED <<users, inquiries, responses, integrations, analytics, now, gw, inflight>>

\* the ids storage calls name: one demo record, the records created since,
\* and an unknown id
StoredTemplateIds == {randomUUID(2), UnknownId} \cup (DOMAIN templates \ DOMAIN DemoTemplates)

\* Partial<Template> values: empty; its own timestamps; content fields
TemplatePartials ==
    { EmptyObject,
      [updatedAt |-> Date(-1), createdAt |-> Date(-1)],
      [name |-> Str("Renamed"), isActive |-> Bool(FALSE)] }

CallUpdateTemplate(id, updates) ==
    LET update == updateTemplate(templates, id, updates, now)
    IN
    /\ requests < MaxRequests
    /\ requests' = requests + 1
    /\ templates' = update.map
    /\ last' = [Stored("updateTemplate", id, updates,
                       IF update.found THEN update.map[id] ELSE EmptyObject)
                  EXCEPT !.again = (last.op = "updateTemplate" /\ last.id = id
                                    /\ last.body = updates)]
    /\ UNCHANGED <<users, inquiries, responses, integrations, analytics, nextId, now, gw, inflight>>

CallDeleteTemplate(id) ==
    LET removal == deleteTemplate(templates, id)
    IN
    /\ requests < MaxRequests
    /\ requests' = requests + 1
    /\ templates' = removal.map
    /\ last' = Stored("deleteTemplate", id, EmptyObject, EmptyObject)
    /\ UNCHANGED <<users, inquiries, responses, integrations, analytics, nextId, now, gw, inflight>>

CallGetTemplate(id) ==
    LET found == getTemplate(templates, id)
    IN
    /\ requests < MaxRequests
    /\ requests' = requests + 1
    /\ last' = [Stored("getTemplate", id, EmptyObject,
                       IF found = {} THEN EmptyObject
                       ELSE templates[CHOOSE i \in found : TRUE])
                  EXCEPT !.list = found]
    /\ UNCHANGED <<users, templates, inquiries, responses, integrations, analytics,
                   nextId, now, gw, inflight>>

InquiryPayloads ==
    {[userId |-> u, content |-> Str("Need a quote ASAP")] : u \in UserIds}

CallCreateInquiry(insertInquiry) ==
    LET id == randomUUID(nextId + 1)
        inquiry == createInquiry(insertInquiry, id, now)
    IN
    /\ requests < MaxRequests
    /\ requests' = requests + 1
    /\ inquiries' = MapSet(inquiries, id, inquiry)
    /\ nextId' = nextId + 1
    /\ last' = Stored("createInquiry", id, insertInquiry, inquiry)
    /\ UNCHANGED <<users, templates, responses, integrations, analytics, now, gw, inflight>>

ResponsePayloads ==
    {[inquiryId |-> Str(i), content |-> Str("Written by hand.")] : i \in InquiryIds}

CallCreateResponse(insertResponse) ==
    LET id == randomUUID(nextId + 1)
        response == createResponse(insertResponse, id, now)
    IN
    /\ requests < MaxRequests
    /\ requests' = requests + 1
    /\ responses' = MapSet(responses, id, response)
    /\ nextId' = nextId + 1
    /\ last' = Stored("createResponse", id, insertResponse, response)
    /\ UNCHANGED <<users, templates, inquiries, integrations, analytics, now, gw, inflight>>

\* Partial<Response> values
ResponsePartials ==
    { EmptyObject, [success |-> Bool(TRUE), wasModified |-> Bool(TRUE)] }

CallUpdateResponse(id, updates) ==
    LET update == updateResponse(responses, id, updates)
    IN
    /\ requests < MaxRequests
    /\ requests' = requests + 1
    /\ responses' = update.map
    /\ last' = Stored("updateResponse", id, updates,
                      IF update.found THEN update.map[id] ELSE EmptyObject)
    /\ UNCHANGED <<users, templates, inquiries, integrations, analytics, nextId, now, gw, inflight>>

CallGetResponsesByUser(userId) ==
    /\ requests < MaxRequests
    /\ requests' = requests + 1
    /\ last' = [Stored("getResponsesByUser", userId.s, EmptyObject, EmptyObject)
                  EXCEPT !.list = getResponsesByUser(inquiries, responses, userId)]
    /\ UNCHANGED <<users, templates, inquiries, responses, integrations, analytics,
                   nextId, now, gw, inflight>>

\* InsertIntegration values: a second Gmail integration of the demo user,
\* and one with only the required fields
IntegrationPayloads ==
    { [userId |-> DemoUser.id, platform |-> Str("Gmail"), isActive |-> Bool(TRUE)],
      [userId |-> Str(OtherUserId), platform |-> Str("Discord")] }

CallCreateIntegration(insertIntegration) ==
    LET id == randomUUID(nextId + 1)
        integration == createIntegration(insertIntegration, id, now)
    IN
    /\ requests < MaxRequests
    /\ requests' = requests + 1
    /\ integrations' = MapSet(integrations, id, integration)
    /\ nextId' = nextId + 1
    /\ last' = Stored("createIntegration", id, insertIntegration, integration)
    /\ UNCHANGED <<users, templates, inquiries, responses, analytics, now, gw, inflight>>

IntegrationIds == {randomUUID(5), UnknownId}

\* Partial<Integration> values
IntegrationPartials ==
    { EmptyObject, [isActive |-> Bool(FALSE), lastSync |-> Date(0)] }

CallUpdateIntegration(id, updates) ==
    LET update == updateIntegration(integrations, id, updates)
    IN
    /\ requests < MaxRequests
    /\ requests' = requests + 1
    /\ integrations' = update.map
    /\ last' = Stored("updateIntegration", id, updates,
                      IF update.found THEN update.map[id] ELSE EmptyObject)
    /\ UNCHANGED <<users, templates, inquiries, responses, analytics, nextId, now, gw, inflight>>

\* InsertAnalytics values: every counter omitted; a day with no inquiries
AnalyticsPayloads ==
    { [userId |-> DemoUser.id],
      [userId |-> Str(OtherUserId), totalInquiries |-> Num(0), automatedResponses |-> Num(0),
       customerSatisfaction |-> Num(90)] }

CallCreateAnalytics(insertAnalytics) ==
    LET id == randomUUID(nextId + 1)
        record == createAnalytics(insertAnalytics, id, now)
    IN
    /\ requests < MaxRequests
    /\ requests' = requests + 1
    /\ analytics' = MapSet(analytics, id, record)
    /\ nextId' = nextId + 1
    /\ last' = Stored("createAnalytics", id, insertAnalytics, record)
    /\ UNCHANGED <<users, templates, inquiries, responses, integrations, now, gw, inflight>>

AnalyticsIds == {randomUUID(7), UnknownId}

\* Partial<Analytics> values
AnalyticsPartials ==
    { EmptyObject, [date |-> Null, timeSaved |-> Num(0)] }

CallUpdateAnalytics(id, updates) ==
    LET update == updateAnalytics(analytics, id, updates)
    IN
    /\ requests < MaxRequests
    /\ requests' = requests + 1
    /\ analytics' = update.map
    /\ last' = Stored("updateAnalytics", id, updates,
                      IF update.found THEN update.map[id] ELSE EmptyObject)
    /\ UNCHANGED <<users, templates, inquiries, responses, integrations, nextId, now, gw, inflight>>

\* the days argument: omitted, or a number of days
DaysArguments == {Undefined, Num(0), Num(1)}

CallGetAnalytics(userId, days) ==
    /\ requests < MaxRequests
    /\ requests' = requests + 1
    /\ last' = [Stored("getAnalytics", userId.s, EmptyObject, EmptyObject)
                  EXCEPT !.list = getAnalytics(analytics, userId, days, now),
                         !.days = days]
    /\ UNCHANGED <<users, templates, inquiries, responses, integrations, analytics,
                   nextId, now, gw, inflight>>

GetResponses ==
    LET op == "GET /api/responses"
    IN
    /\ requests < MaxRequests
    /\ requests' = requests + 1
    /\ UNCHANGED <<users, templates, inquiries, responses, integrations, analytics,
                   nextId, now, gw, inflight>>
    /\ IF Owner = {}
       THEN last' = Served(op, 404, "", EmptyObject)
       ELSE LET user == users[CHOOSE u \in Owner : TRUE]
            IN  last' = [Served(op, 200, user.id.s, EmptyObject)
                           EXCEPT !.list = getResponsesByUser(inquiries, responses, user.id)]

DefaultDays == 30

\* parseInt of a query string: the number whose decimal text it is, or NaN
ParseInt(v) ==
    LET ks == {k \in 0..DefaultDays : ToString(k) = v.s}
    IN  IF ks = {} THEN NaN ELSE Num(CHOOSE k \in ks : TRUE)

\* req.query of GET /api/analytics: no days, or days=N
AnalyticsQueries ==
    { EmptyObject, [days |-> Str("0")], [days |-> Str("1")] }

GetAnalytics(query) ==
    LET op == "GET /api/analytics"
        days == IF Truthy(Get(query, "days")) THEN ParseInt(query.days)
                ELSE Num(DefaultDays)
    IN
    /\ requests < MaxRequests
    /\ requests' = requests + 1
    /\ UNCHANGED <<users, templates, inquiries, responses, integrations, analytics,
                   nextId, now, gw, inflight>>
    /\ IF Owner = {}
       THEN last' = Served(op, 404, "", query)
       ELSE LET user == users[CHOOSE u \in Owner : TRUE]
            IN  last' = [Served(op, 200, user.id.s, query)
                           EXCEPT !.list = getAnalytics(analytics, user.id, days, now),
                                  !.days = days]

IntegrationBodies ==
    { [platform |-> Str("Gmail")],
      [platform |-> Str("Discord"), userId |-> Str("intruder"), isActive |-> Bool(TRUE)],
      EmptyObject }

PostIntegration(body) ==
    LET op == "POST /api/integrations"
    IN
    /\ requests < MaxRequests
    /\ requests' = requests + 1
    /\ UNCHANGED <<users, templates, inquiries, responses, analytics, now, gw, inflight>>
    /\ IF Owner = {}
       THEN /\ last' = Served(op, 404, "", body)
            /\ UNCHANGED <<integrations, nextId>>
       ELSE
       LET user == users[CHOOSE u \in Owner : TRUE]
           parsed == ZodParse(insertIntegrationSchema, Spread(body, [userId |-> user.id]))
           id == randomUUID(nextId + 1)
           integration == createIntegration(parsed.data, id, now)
       IN
       IF ~parsed.ok
       THEN /\ last' = Served(op, 400, "", body)
            /\ UNCHANGED <<integrations, nextId>>
       ELSE /\ integrations' = MapSet(integrations, id, integration)
            /\ nextId' = nextId + 1
            /\ last' = [Served(op, 201, id, body) EXCEPT !.result = integration]

\* bodies of PUT /api/integrations/:id; the handler passes req.body on unvalidated
IntegrationUpdates ==
    { EmptyObject, [isActive |-> Bool(FALSE)] }

PutIntegration(id, body) ==
    LET op == "PUT /api/integrations/:id"
        update == updateIntegration(integrations, id, body)
    IN
    /\ requests < MaxRequests
    /\ requests' = requests + 1
    /\ UNCHANGED <<users, templates, inquiries, responses, analytics, nextId, now, gw, inflight>>
    /\ IF ~update.found
       THEN /\ last' = Served(op, 404, id, body)
            /\ UNCHANGED integrations
       ELSE /\ integrations' = update.map
            /\ last' = [Served(op, 200, id, body) EXCEPT !.result = update.map[id]]

NextStore ==
    \/ Tick
    \/ \E p \in UserPayloads : CallCreateUser(p)
    \/ \E p \in TemplatePayloads : CallCreateTemplate(p)
    \/ \E id \in StoredTemplateIds, p \in TemplatePartials : CallUpdateTemplate(id, p)
    \/ \E id \in StoredTemplateIds : CallDeleteTemplate(id)
    \/ \E id \in StoredTemplateIds : CallGetTemplate(id)
    \/ \E p \in InquiryPayloads : CallCreateInquiry(p)
    \/ \E p \in ResponsePayloads : CallCreateResponse(p)
    \/ \E id \in ResponseIds, p \in ResponsePartials : CallUpdateResponse(id, p)
    \/ \E u \in UserIds : CallGetResponsesByUser(u)
    \/ \E p \in IntegrationPayloads : CallCreateIntegration(p)
    \/ \E id \in IntegrationIds, p \in IntegrationPartials : CallUpdateIntegration(id, p)
    \/ \E p \in AnalyticsPayloads : CallCreateAnalytics(p)
    \/ \E id \in AnalyticsIds, p \in AnalyticsPartials : CallUpdateAnalytics(id, p)
    \/ \E u \in UserIds, days \in DaysArguments : CallGetAnalytics(u, days)
    \/ GetResponses
    \/ \E query \in AnalyticsQueries : GetAnalytics(query)
    \/ \E body \in IntegrationBodies : PostIntegration(body)
    \/ \E id \in IntegrationIds, body \in IntegrationUpdates : PutIntegration(id, body)
    \/ \E id \in StoredTemplateIds, body \in TemplatePartials : PutTemplate(id, body)
    \/ \E id \in ResponseIds, body \in FeedbackBodies : PutFeedback(id, body)

SpecStore == Init /\ [][NextStore]_vars

----------------------------------------------------------------------------
(* GET /api/analytics/summary.  Its quotients are computed as JavaScript   *)
(* computes them: 0 / 0 is NaN, x / 0 is Infinity, and any other quotient  *)
(* is carried exactly, as numerator n over denominator d.                  *)

Infinity == [t |-> "Infinity", s |-> "", n |-> 0]
Fraction(a, b) == [t |-> "number", s |-> "", n |-> a, d |-> b]
Denominator(v) == IF "d" \in DOMAIN v THEN v.d ELSE 1

\* x / y for numbers that are not negative
JsDiv(x, y) ==
    IF "NaN" \in {x.t, y.t} THEN NaN
    ELSE IF x.t = "Infinity" THEN Infinity
    ELSE IF y.n = 0 THEN (IF x.n = 0 THEN NaN ELSE Infinity)
    ELSE Fraction(x.n * Denominator(y), Denominator(x) * y.n)

\* x * y for numbers that are positive or zero, y positive
JsMul(x, y) ==
    IF "NaN" \in {x.t, y.t} THEN NaN
    ELSE IF "Infinity" \in {x.t, y.t} THEN Infinity
    ELSE Fraction(x.n * y.n, Denominator(x) * Denominator(y))

\* records.reduce((sum, a) => sum + (a[field] || 0), 0)
RECURSIVE reduce(_, _, _)
reduce(amap, ids, field) ==
    IF ids = {} THEN 0
    ELSE LET a == CHOOSE x \in ids : TRUE
         IN  OrElse(Get(amap[a], field), Num(0)).n + reduce(amap, ids \ {a}, field)

SummaryDays == 7

\* variant: the quotient taken without looking at the number of records
responseRate_Unguarded(amap, window) ==
    JsMul(JsDiv(Num(reduce(amap, window, "automatedResponses")),
                Num(reduce(amap, window, "totalInquiries"))),
          Num(100))

responseRate(amap, window) ==
    IF Cardinality(window) > 0
    THEN JsMul(JsDiv(Num(reduce(amap, window, "automatedResponses")),
                     Num(reduce(amap, window, "totalInquiries"))),
               Num(100))
    ELSE Num(0)

customerSatisfaction(amap, window) ==
    IF Cardinality(window) > 0
    THEN JsDiv(JsDiv(Num(reduce(amap, window, "customerSatisfaction")),
                     Num(Cardinality(window))),
               Num(20))
    ELSE Num(0)

\* variant: every template of the owner counted, active or not
activeTemplates_All(tmap, owned) == Num(Cardinality(owned))

activeTemplates(tmap, owned) ==
    Num(Cardinality({i \in owned : Truthy(Get(tmap[i], "isActive"))}))

GetSummary ==
    LET op == "GET /api/analytics/summary"
    IN
    /\ requests < MaxRequests
    /\ requests' = requests + 1
    /\ UNCHANGED <<users, templates, inquiries, responses, integrations, analytics,
                   nextId, now, gw, inflight>>
    /\ IF Owner = {}
       THEN last' = Served(op, 404, "", EmptyObject)
       ELSE LET user == users[CHOOSE u \in Owner : TRUE]
                window == getAnalytics(analytics, user.id, Num(SummaryDays), now)
                owned == getTemplates(templates, user.id)
                summary ==
                    [responseRate         |-> responseRate(analytics, window),
                     timeSaved            |-> Num(reduce(analytics, window, "timeSaved")),
                     customerSatisfaction |-> customerSatisfaction(analytics, window),
                     activeTemplates      |-> activeTemplates(templates, owned),
                     weeklyInquiries      |-> Num(reduce(analytics, window, "totalInquiries")),
                     weeklyResponses      |-> Num(reduce(analytics, window, "automatedResponses"))]
            IN  last' = [Served(op, 200, user.id.s, EmptyObject) EXCEPT !.result = summary]

\* the clock advances by a day, or by more days than the summary looks back
Intervals == {1, SummaryDays + 1}

Elapse(d) ==
    /\ now < MaxTime
    /\ now' = now + d
    /\ UNCHANGED <<users, templates, inquiries, responses, integrations, analytics,
                   nextId, last, requests, gw, inflight>>

\* InsertAnalytics values of the owner: every counter omitted; a busy day
DayPayloads ==
    { [userId |-> DemoUser.id],
      [userId |-> DemoUser.id, totalInquiries |-> Num(4), automatedResponses |-> Num(3),
       customerSatisfaction |-> Num(90), timeSaved |-> Num(30)] }

NextSummary ==
    \/ \E d \in Intervals : Elapse(d)
    \/ \E p \in DayPayloads : CallCreateAnalytics(p)
    \/ \E id \in AnalyticsIds, p \in AnalyticsPartials : CallUpdateAnalytics(id, p)
    \/ \E p \in TemplatePayloads : CallCreateTemplate(p)
    \/ \E id \in StoredTemplateIds, body \in TemplatePartials : PutTemplate(id, body)
    \/ \E id \in StoredTemplateIds : CallDeleteTemplate(id)
    \/ GetSummary

SpecSummary == Init /\ [][NextSummary]_vars

----------------------------------------------------------------------------
(* Intake requests in flight.  The handler of POST /api/inquiries awaits   *)
(* the provider twice, in classifyInquiry and in generateResponse; while   *)
(* it is suspended there the server serves other requests.  The storage    *)
(* calls between two such awaits settle at once and run as one step.  A    *)
(* suspended handler keeps its locals: the body, the owner, the inquiry it *)
(* stored and the template object getTemplate returned to it.              *)

Flight(pc, body, user, existing) ==
    [pc |-> pc, body |-> body, user |-> user, existing |-> existing, classify |-> NoReply,
     classification |-> EmptyObject, inquiry |-> EmptyObject, template |-> EmptyObject]

\* request bodies: one that passes validation, one without content
FlightBodies ==
    { [content |-> Str("Need a quote ASAP")], [subject |-> Str("Quote")] }

\* the templates the classifier suggests and DELETE requests name
FlightTemplateIds == {randomUUID(2), randomUUID(3)}

FlightClassifyReplies ==
    {Reply("error", EmptyObject)}
    \cup {Reply("object", ClassifyPayload(Str("pricing"), Str("urgent"), Num(9), Str(i))) :
             i \in FlightTemplateIds}

\* the handler up to its call of classifyInquiry
BeginIntake(body) ==
    LET op == "POST /api/inquiries"
        k == requests + 1
    IN
    /\ requests < MaxRequests
    /\ requests' = requests + 1
    /\ UNCHANGED <<users, templates, inquiries, responses, integrations, analytics,
                   nextId, now, gw>>
    /\ IF Owner = {}
       THEN /\ last' = Served(op, 404, "", body)
            /\ UNCHANGED inflight
       ELSE LET user == users[CHOOSE u \in Owner : TRUE]
            IN  /\ inflight' = MapSet(inflight, k,
                                      Flight("classify", body, user,
                                             getTemplates(templates, user.id)))
                /\ UNCHANGED last

\* from the classifier's answer to the call of generateResponse, or to the
\* answer of the request when no response is to be generated
ClassifyReturns(k, creply) ==
    LET op == "POST /api/inquiries"
        f == inflight[k]
        call == classifyInquiry(OrElse(Get(f.body, "subject"), Str("")),
                                Get(f.body, "content"), f.existing, creply)
        classification == call.value
        parsed == ZodParse(insertInquirySchema, IntakeInsert(f.body, f.user, classification))
        iid == randomUUID(nextId + 1)
        inquiry == createInquiry(parsed.data, iid, now)
    IN
    /\ k \in DOMAIN inflight
    /\ f.pc = "classify"
    /\ UNCHANGED <<users, templates, responses, integrations, analytics, now, requests, gw>>
    /\ IF call.raised \/ ~parsed.ok
       THEN /\ last' = [Served(op, 400, "", f.body) EXCEPT
                           !.classify = creply, !.classification = classification]
            /\ inflight' = MapDelete(inflight, k)
            /\ UNCHANGED <<inquiries, nextId>>
       ELSE
       /\ inquiries' = MapSet(inquiries, iid, inquiry)
       /\ nextId' = nextId + 1
       /\ IF ~Suggested(classification)
          THEN /\ last' = [Served(op, 201, iid, f.body) EXCEPT
                              !.classify = creply, !.classification = classification]
               /\ inflight' = MapDelete(inflight, k)
          ELSE /\ inflight' = [inflight EXCEPT ![k] =
                                  [f EXCEPT !.pc = "generate",
                                            !.classify = creply,
                                            !.classification = classification,
                                            !.inquiry = inquiry,
                                            !.template =
                                                templates[classification.suggestedTemplateId.s]]]
               /\ UNCHANGED last

\* from the generator's answer to the answer of the request
GenerateReturns(k, greply) ==
    LET op == "POST /api/inquiries"
        f == inflight[k]
        gen == generateResponse(f.inquiry.content, f.template.content, EmptyObject, greply)
        rid == randomUUID(nextId + 1)
        response == createResponse(IntakeResponse(f.inquiry, f.template, gen.value), rid, now)
        update == updateTemplate(templates, f.template.id.s, IntakeUsage(f.template), now)
        served == [Served(op, 201, f.inquiry.id.s, f.body) EXCEPT
                      !.classify = f.classify, !.classification = f.classification,
                      !.generate = greply]
    IN
    /\ k \in DOMAIN inflight
    /\ f.pc = "generate"
    /\ inflight' = MapDelete(inflight, k)
    /\ UNCHANGED <<users, inquiries, integrations, analytics, now, requests, gw>>
    /\ IF gen.raised
       THEN /\ last' = [served EXCEPT !.status = 400]
            /\ UNCHANGED <<templates, responses, nextId>>
       ELSE /\ responses' = MapSet(responses, rid, response)
            /\ nextId' = nextId + 1
            /\ templates' = update.map
            /\ last' = [served EXCEPT !.responseId = rid]

NextFlights ==
    \/ \E body \in FlightBodies : BeginIntake(body)
    \/ \E k \in DOMAIN inflight, creply \in FlightClassifyReplies : ClassifyReturns(k, creply)
    \/ \E k \in DOMAIN inflight, greply \in GenerateReplies : GenerateReturns(k, greply)
    \/ \E id \in FlightTemplateIds : DeleteTemplate(id)

SpecFlights == Init /\ [][NextFlights]_vars

----------------------------------------------------------------------------
(* Properties                                                              *)

Intake == "POST /api/inquiries"

\* this step serves a request of the given kind
Serves(op) == requests' = requests + 1 /\ last'.op = op

\* the underlying call failed or its output could not be read as JSON
CallFailed(reply) == reply.kind \in {"error", "nochoices", "garbage", "null"}

NewInquiries == DOMAIN inquiries' \ DOMAIN inquiries
NewResponses == DOMAIN responses' \ DOMAIN responses

\* a counter read as a number (null counts as 0, as in `timesUsed || 0`)
Count(v) == IF v.t = "number" THEN v.n ELSE 0

\* C1: an intake request whose body is valid on its own answers 201 and
\* stores exactly one new inquiry, whatever the provider replies.
C1_IntakeAlwaysStores ==
    [][Serves(Intake) /\ ValidInquiryBody(last'.body)
         => /\ last'.status = 201
            /\ NewInquiries = {last'.id}]_vars

\* C2: an intake request with a valid body stores exactly one response when
\* the classification suggests a stored template and none otherwise; the
\* response references the new inquiry and the template and is automated,
\* not modified.
C2_IntakeResponse ==
    [][Serves(Intake) /\ ValidInquiryBody(last'.body)
         => LET sg == Get(last'.classification, "suggestedTemplateId")
            IN  IF Truthy(sg) /\ sg.t = "string" /\ sg.s \in DOMAIN templates
                THEN /\ Cardinality(NewResponses) = 1
                     /\ \A r \in NewResponses :
                          /\ responses'[r].inquiryId = Str(last'.id)
                          /\ responses'[r].templateId = templates[sg.s].id
                          /\ responses'[r].isAutomated = Bool(TRUE)
                          /\ responses'[r].wasModified = Bool(FALSE)
                ELSE NewResponses = {}]_vars

\* C3: an intake request that stores an automated response for template T
\* raises T.timesUsed by exactly 1 and leaves every other template's
\* timesUsed alone; one that stores no response changes no template.
C3_UsageCounted ==
    [][Serves(Intake)
         => IF NewResponses = {}
            THEN templates' = templates
            ELSE \A r \in NewResponses :
                   LET T == responses'[r].templateId.s
                   IN  /\ T \in DOMAIN templates
                       /\ DOMAIN templates' = DOMAIN templates
                       /\ Count(templates'[T].timesUsed) = Count(templates[T].timesUsed) + 1
                       /\ \A o \in DOMAIN templates \ {T} :
                            templates'[o].timesUsed = templates[o].timesUsed]_vars

\* C4: the inquiry stored by intake carries the classifier's category,
\* priority and whole output, whatever the body supplied for them.
C4_ClassifierWins ==
    last.op = Intake /\ last.status = 201
      => /\ last.id \in DOMAIN inquiries
         /\ inquiries[last.id].category = last.classification.category
         /\ inquiries[last.id].priority = last.classification.priority
         /\ inquiries[last.id].aiClassification = Obj(last.classification)

C4_Witness ==
    /\ last.op = Intake /\ last.status = 201
    /\ {"category", "priority", "aiClassification"} \subseteq DOMAIN last.body
    /\ last.classify.kind = "object"

\* C5: when the classification call fails, an intake request with a valid
\* body still stores its inquiry, with category "general" and priority
\* "normal"; it stores no response and modifies no template.
C5_ClassifyFailure ==
    [][Serves(Intake) /\ ValidInquiryBody(last'.body) /\ CallFailed(last'.classify)
         => /\ last'.status = 201
            /\ NewInquiries = {last'.id}
            /\ inquiries'[last'.id].category = Str("general")
            /\ inquiries'[last'.id].priority = Str("normal")
            /\ responses' = responses
            /\ templates' = templates]_vars

C5_Witness ==
    /\ last.op = Intake /\ last.status = 201
    /\ last.classify.kind = "error"
    /\ last.id \in DOMAIN inquiries
    /\ inquiries[last.id].priority = Str("normal")
    /\ responses = EmptyObject

\* the documented result of each gateway operation when the call failed
DocumentedDefault(op, content) ==
    CASE op = "classifyInquiry" ->
           [category |-> Str("general"), priority |-> Str("normal"),
            intent |-> Str("Unable to classify inquiry"), confidence |-> Num(0),
            requiredVariables |-> Arr(<<>>)]
      [] op = "generateResponse" ->
           [content |-> content, confidence |-> Num(0), variables |-> Obj(EmptyObject)]
      [] op = "analyzeSentiment" ->
           [rating |-> Num(30), confidence |-> Num(0)]
      [] op = "improveTemplate" ->
           [improvedContent |-> content, improvements |-> Arr(<<>>), confidence |-> Num(0)]

C7_ConfidenceClamped ==
    LET c == Get(gw.reply.payload, "confidence")
    IN  gw.op # "none" /\ gw.reply.kind = "object" /\ c.t = "number"
          => /\ gw.value.confidence.t = "number"
             /\ gw.value.confidence.n >= 0
             /\ gw.value.confidence.n <= 10
             /\ c.n > 10 => gw.value.confidence.n = 10
             /\ c.n < 0 => gw.value.confidence.n = 0

C7_Witness ==
    /\ gw.op = "analyzeSentiment"
    /\ Get(gw.reply.payload, "confidence") = Num(15)
    /\ gw.value.confidence = Num(10)

\* C8: every stored inquiry has a priority among low, normal, high, urgent.
C8_PriorityEnum ==
    \A i \in DOMAIN inquiries :
        inquiries[i].priority \in {Str("low"), Str("normal"), Str("high"), Str("urgent")}

Delete == "DELETE /api/templates/:id"

\* C9: a delete answers 204 exactly when the template was stored and leaves
\* no template under that id; the delete right after a successful delete of
\* the same id answers 404.
C9_DeleteOnce ==
    [][Serves(Delete)
         => /\ (last'.status = 204) <=> (last'.id \in DOMAIN templates)
            /\ (last'.status = 404) <=> (last'.id \notin DOMAIN templates)
            /\ last'.id \notin DOMAIN templates'
            /\ (last.op = Delete /\ last.status = 204 /\ last.id = last'.id)
                 => last'.status = 404]_vars

C9_Witness ==
    last.op = Delete /\ last.status = 404 /\ last.again

Feedback == "PUT /api/responses/:id/feedback"

\* C10: feedback on a stored response changes none of its fields other than
\* customerFeedback and success, and no other record.
C10_FeedbackFrame ==
    [][Serves(Feedback) /\ last'.id \in DOMAIN responses
         => /\ DOMAIN responses' = DOMAIN responses
            /\ \A r \in DOMAIN responses \ {last'.id} : responses'[r] = responses[r]
            /\ \A k \in {"id", "inquiryId", "templateId", "content", "isAutomated",
                         "wasModified", "sentAt"} :
                 responses'[last'.id][k] = responses[last'.id][k]
            /\ DOMAIN responses'[last'.id] = DOMAIN responses[last'.id]
            /\ UNCHANGED <<users, templates, inquiries>>]_vars

C10_Witness ==
    /\ last.op = Feedback /\ last.status = 200
    /\ "content" \in DOMAIN last.body
    /\ responses[last.id].customerFeedback = Num(1)

\* the same stored value, null and undefined both read as "no value"
SameValue(a, b) == a = b \/ ({a.t, b.t} \subseteq {"null", "undefined"})

\* C11: feedback whose body supplies only one of customerFeedback and success
\* leaves the stored value of the other field unchanged.
C11_FeedbackMerge ==
    [][(/\ Serves(Feedback) /\ last'.id \in DOMAIN responses
        /\ Cardinality({"customerFeedback", "success"} \cap DOMAIN last'.body) = 1)
         => \A k \in {"customerFeedback", "success"} :
               k \notin DOMAIN last'.body
                 => SameValue(Get(responses'[last'.id], k), Get(responses[last'.id], k))]_vars

\* C12: the id field of every stored record is the id it is stored under.
C12_IdImmutable ==
    /\ \A i \in DOMAIN templates : templates[i].id = Str(i)
    /\ \A i \in DOMAIN inquiries : inquiries[i].id = Str(i)
    /\ \A i \in DOMAIN responses : responses[i].id = Str(i)
    /\ \A i \in DOMAIN integrations : integrations[i].id = Str(i)
    /\ \A i \in DOMAIN analytics : analytics[i].id = Str(i)
    /\ \A i \in DOMAIN users : users[i].id = Str(i)

\* this step is a successful updateTemplate call, made directly or by the
\* PUT endpoint
UpdatesTemplate ==
    /\ requests' = requests + 1
    /\ last'.op \in {"updateTemplate", "PUT /api/templates/:id"}
    /\ last'.id \in DOMAIN templates

\* C13 as stated: every successful updateTemplate call leaves updatedAt
\* strictly greater than before, whatever the payload, and leaves createdAt
\* unchanged unless the payload supplies it.
C13_UpdatedAtStrict ==
    [][UpdatesTemplate
         => /\ templates'[last'.id].updatedAt.n > templates[last'.id].updatedAt.n
            /\ "createdAt" \notin DOMAIN last'.body
                 => templates'[last'.id].createdAt = templates[last'.id].createdAt]_vars

\* C13, amended: every successful updateTemplate call sets updatedAt to the
\* clock's reading at the call, whatever the payload: never less than before,
\* and strictly greater exactly when the clock has advanced since the previous
\* stamp; createdAt is unchanged unless the payload supplies it.
C13_UpdatedAtRefreshed ==
    [][UpdatesTemplate
         => /\ templates'[last'.id].updatedAt = Date(now)
            /\ templates'[last'.id].updatedAt.n >= templates[last'.id].updatedAt.n
            /\ (templates'[last'.id].updatedAt.n > templates[last'.id].updatedAt.n)
                 <=> (now > templates[last'.id].updatedAt.n)
            /\ templates'[last'.id].createdAt =
                 IF "createdAt" \in DOMAIN last'.body THEN last'.body.createdAt
                 ELSE templates[last'.id].createdAt]_vars

C13_Witness ==
    /\ last.op = "updateTemplate"
    /\ "updatedAt" \in DOMAIN last.body
    /\ now > 0
    /\ last.id \in DOMAIN templates
    /\ templates[last.id].updatedAt = Date(now)
    /\ templates[last.id].createdAt = last.body.createdAt

\* the documented defaults of a Template's optional fields
TemplateDefaults ==
    [isActive |-> Bool(TRUE), successRate |-> Num(0), timesUsed |-> Num(0),
     variables |-> Arr(<<>>), subject |-> Null]

\* C14 as stated: createTemplate returns a record in which every omitted
\* optional field has its default, every supplied field has the supplied
\* value, and updatedAt equals createdAt.
C14_CreateDefaults ==
    last.op = "createTemplate"
      => /\ \A k \in DOMAIN TemplateDefaults \ DOMAIN last.body :
              last.result[k] = TemplateDefaults[k]
         /\ \A k \in DOMAIN last.body : last.result[k] = last.body[k]
         /\ last.result.updatedAt = last.result.createdAt

\* C14, amended: createTemplate returns a record in which every optional
\* field that is omitted or supplied as null has its default, every field
\* supplied with a value other than null has that value, and updatedAt
\* equals createdAt.
C14_CreateDefaultsNullish ==
    last.op = "createTemplate"
      => /\ \A k \in DOMAIN TemplateDefaults :
              Get(last.body, k).t \in {"undefined", "null"}
                => last.result[k] = TemplateDefaults[k]
         /\ \A k \in DOMAIN last.body :
              last.body[k].t # "null" => last.result[k] = last.body[k]
         /\ last.result.updatedAt = last.result.createdAt

C14_Witness ==
    /\ last.op = "createTemplate"
    /\ Get(last.body, "isActive") = Null
    /\ "successRate" \notin DOMAIN last.body
    /\ last.result.isActive = Bool(TRUE)
    /\ last.result.successRate = Num(0)

\* this step updates or deletes the template stored under id
Touches(id) ==
    /\ requests' = requests + 1
    /\ last'.op \in {"updateTemplate", "PUT /api/templates/:id", "deleteTemplate"}
    /\ last'.id = id

\* C15: right after createTemplate, getTemplate of the new id finds the
\* record createTemplate returned, equal in all fields; every later step
\* that does not update or delete that id leaves it so, and a getTemplate
\* call returns the stored record.
C15_CreateGetRoundTrip ==
    [][/\ Serves("createTemplate")
            => /\ getTemplate(templates', last'.id) = {last'.id}
               /\ templates'[last'.id] = last'.result
       /\ \A id \in DOMAIN templates :
            ~Touches(id)
              => /\ getTemplate(templates', id) = {id}
                 /\ templates'[id] = templates[id]
       /\ Serves("getTemplate") /\ last'.id \in DOMAIN templates
            => /\ last'.list = {last'.id}
               /\ last'.result = templates[last'.id]]_vars

C15_Witness ==
    /\ last.op = "getTemplate"
    /\ last.id \in DOMAIN templates \ DOMAIN DemoTemplates
    /\ last.result = templates[last.id]
    /\ last.result.name = Str("Support")

\* the store a storage update works on, by the operation's name
StoreOf(op) ==
    CASE op \in {"updateTemplate", "PUT /api/templates/:id"}       -> templates
      [] op \in {"updateResponse", "PUT /api/responses/:id/feedback"} -> responses
      [] op \in {"updateIntegration", "PUT /api/integrations/:id"} -> integrations
      [] op = "updateAnalytics"                                    -> analytics

\* the same store after the step
StoreOfNext(op) ==
    CASE op \in {"updateTemplate", "PUT /api/templates/:id"}       -> templates'
      [] op \in {"updateResponse", "PUT /api/responses/:id/feedback"} -> responses'
      [] op \in {"updateIntegration", "PUT /api/integrations/:id"} -> integrations'
      [] op = "updateAnalytics"                                    -> analytics'

UpdateOps ==
    {"updateTemplate", "PUT /api/templates/:id", "updateResponse",
     "updateIntegration", "PUT /api/integrations/:id", "updateAnalytics"}

\* C16: an update with an empty field set on a stored record leaves the
\* record's fields unchanged, except updatedAt of a Template; so does any
\* number of repetitions.
C16_EmptyUpdate ==
    [][(/\ requests' = requests + 1
        /\ last'.op \in UpdateOps
        /\ last'.body = EmptyObject
        /\ last'.id \in DOMAIN StoreOf(last'.op))
         => LET before == StoreOf(last'.op)[last'.id]
                after  == StoreOfNext(last'.op)[last'.id]
            IN  /\ DOMAIN after = DOMAIN before
                /\ \A k \in DOMAIN before \ {"updatedAt"} : after[k] = before[k]
                /\ \A k \in DOMAIN before \cap {"updatedAt"} :
                     last'.op \notin {"updateTemplate", "PUT /api/templates/:id"}
                       => after[k] = before[k]]_vars

C16_Witness ==
    /\ last.op = "updateTemplate"
    /\ last.body = EmptyObject
    /\ last.again
    /\ now > 0
    /\ last.id \in DOMAIN DemoTemplates
    /\ templates[last.id] = Spread(DemoTemplates[last.id], [updatedAt |-> Date(now)])

CreateOps ==
    {"createUser", "createTemplate", "createInquiry", "createResponse",
     "createIntegration", "createAnalytics"}

\* the six stores, by the name of the create operation
Stores ==
    [createUser |-> users, createTemplate |-> templates, createInquiry |-> inquiries,
     createResponse |-> responses, createIntegration |-> integrations,
     createAnalytics |-> analytics]

\* the six stores after the step
StoresNext ==
    [createUser |-> users', createTemplate |-> templates', createInquiry |-> inquiries',
     createResponse |-> responses', createIntegration |-> integrations',
     createAnalytics |-> analytics']

\* C17: every create call succeeds and adds exactly one record, under an id
\* that no stored record of its kind has as key or as id field; the record
\* stored is the one returned and carries that id and the payload's values;
\* every record stored before is unchanged.  No uniqueness or referential
\* check stands in the way.
C17_CreateAdds ==
    [][(requests' = requests + 1 /\ last'.op \in CreateOps)
         => LET before == Stores[last'.op]
                after  == StoresNext[last'.op]
            IN  /\ DOMAIN after = DOMAIN before \cup {last'.id}
                /\ last'.id \notin DOMAIN before
                /\ \A i \in DOMAIN before : before[i].id # Str(last'.id)
                /\ after[last'.id] = last'.result
                /\ last'.result.id = Str(last'.id)
                /\ \A k \in DOMAIN last'.body :
                     last'.body[k].t # "null" => last'.result[k] = last'.body[k]
                /\ \A i \in DOMAIN before : after[i] = before[i]
                /\ \A op \in CreateOps \ {last'.op} : StoresNext[op] = Stores[op]]_vars

C17_Witness ==
    /\ last.op = "createResponse"
    /\ last.result.inquiryId = Str(UnknownId)
    /\ UnknownId \notin DOMAIN inquiries
    /\ Cardinality({u \in DOMAIN users : users[u].username = Str("jane.smith")}) = 2

PutOps ==
    {"PUT /api/templates/:id", "PUT /api/integrations/:id",
     "PUT /api/responses/:id/feedback"}

\* C18: an update of an id that is not stored returns not-found, creates no
\* record and leaves the whole store unchanged; the PUT endpoints answer 404.
C18_UpdateMissing ==
    [][(/\ requests' = requests + 1
        /\ last'.op \in UpdateOps \cup PutOps
        /\ last'.id \notin DOMAIN StoreOf(last'.op))
         => /\ last'.result = EmptyObject
            /\ last'.id \notin DOMAIN StoreOfNext(last'.op)
            /\ UNCHANGED <<users, templates, inquiries, responses, integrations,
                           analytics, nextId>>
            /\ last'.op \in PutOps => last'.status = 404]_vars

C18_Witness ==
    /\ last.op = "PUT /api/integrations/:id"
    /\ last.id = UnknownId
    /\ last.status = 404
    /\ integrations = DemoIntegrations

\* the stored responses whose inquiryId is the id of a stored inquiry of u
ResponsesOf(u) ==
    {r \in DOMAIN responses :
        \E i \in DOMAIN inquiries :
            inquiries[i].userId = u /\ responses[r].inquiryId = Str(i)}

\* C19: in every reachable state getResponsesByUser(u) is exactly the set
\* of stored responses whose inquiryId is the id of a stored inquiry of u,
\* and that is what a getResponsesByUser call and GET /api/responses return.
C19_ResponsesByUser ==
    /\ \A u \in UserIds : getResponsesByUser(inquiries, responses, u) = ResponsesOf(u)
    /\ last.op \in {"getResponsesByUser", "GET /api/responses"} /\ last.status # 404
         => last.list = ResponsesOf(Str(last.id))

\* a response to another owner's inquiry is stored: it is listed for that
\* owner and not for the demo user
C19_Witness ==
    \E r \in DOMAIN responses :
        /\ responses[r].inquiryId.s \in DOMAIN inquiries
        /\ inquiries[responses[r].inquiryId.s].userId = Str(OtherUserId)
        /\ getResponsesByUser(inquiries, responses, Str(OtherUserId)) = {r}
        /\ getResponsesByUser(inquiries, responses, DemoUser.id) = {}

\* the analytics records of u dated within the trailing n days of the clock
AnalyticsWindow(u, n) ==
    {a \in DOMAIN analytics :
        /\ analytics[a].userId = u
        /\ analytics[a].date.t = "date"
        /\ analytics[a].date.n >= now - n}

\* C20: a listing of analytics for a supplied number of days N, 0 included,
\* returns exactly the owner's records dated within the trailing N days;
\* GET /api/analytics without days uses 30.
C20_DaysWindow ==
    [][(requests' = requests + 1 /\ last'.op \in {"getAnalytics", "GET /api/analytics"})
         => /\ last'.days.t = "number"
                 => last'.list = AnalyticsWindow(Str(last'.id), last'.days.n)
            /\ (last'.op = "GET /api/analytics" /\ "days" \notin DOMAIN last'.body)
                 => last'.days = Num(DefaultDays)]_vars

----------------------------------------------------------------------------
(* The analytics summary                                                   *)

Summary == "GET /api/analytics/summary"

\* sum over the records R of the counter `field`, a counter that is null
\* counting as 0
RECURSIVE Total(_, _)
Total(R, field) ==
    IF R = {} THEN 0
    ELSE LET a == CHOOSE x \in R : TRUE
         IN  Count(Get(analytics[a], field)) + Total(R \ {a}, field)

\* C21: the summary's responseRate is a defined finite number for every set
\* of trailing-7-day records, also when records exist and their
\* totalInquiries sum to 0.
C21_ResponseRateFinite ==
    (last.op = Summary /\ last.status = 200)
        => last.result.responseRate.t = "number"

\* C22: with no analytics record of the owner in the trailing 7 days the
\* summary's responseRate, customerSatisfaction and timeSaved are all 0.
C22_EmptyWindow ==
    [][(/\ Serves(Summary)
        /\ last'.status = 200
        /\ AnalyticsWindow(DemoUser.id, SummaryDays) = {})
         => /\ last'.result.responseRate = Num(0)
            /\ last'.result.customerSatisfaction = Num(0)
            /\ last'.result.timeSaved = Num(0)]_vars

\* the summary was served when time had moved past every record of the owner
C22_Witness ==
    /\ last.op = Summary
    /\ last.status = 200
    /\ now > SummaryDays
    /\ analytics # EmptyObject
    /\ AnalyticsWindow(DemoUser.id, SummaryDays) = {}
    /\ last.result.responseRate = Num(0)

\* C23: over a non-empty window R whose totalInquiries sum is positive,
\* responseRate * sum(totalInquiries) = 100 * sum(automatedResponses),
\* timeSaved = sum(timeSaved), customerSatisfaction * 20 * |R| =
\* sum(customerSatisfaction), and activeTemplates is the number of the
\* owner's templates whose isActive is true.
C23_SummaryIdentities ==
    [][LET R == AnalyticsWindow(DemoUser.id, SummaryDays)
           s == last'.result
       IN  (/\ Serves(Summary)
            /\ last'.status = 200
            /\ R # {}
            /\ Total(R, "totalInquiries") > 0)
             => /\ s.responseRate.t = "number"
                /\ s.responseRate.n * Total(R, "totalInquiries")
                     = 100 * Total(R, "automatedResponses") * Denominator(s.responseRate)
                /\ s.timeSaved = Num(Total(R, "timeSaved"))
                /\ s.customerSatisfaction.t = "number"
                /\ s.customerSatisfaction.n * 20 * Cardinality(R)
                     = Total(R, "customerSatisfaction") * Denominator(s.customerSatisfaction)
                /\ s.activeTemplates
                     = Num(Cardinality({i \in DOMAIN templates :
                                           /\ templates[i].userId = DemoUser.id
                                           /\ templates[i].isActive = Bool(TRUE)}))]_vars

\* the summary was served over the records of the past week while one
\* template of the owner was inactive
C23_Witness ==
    /\ last.op = Summary
    /\ last.status = 200
    /\ AnalyticsWindow(DemoUser.id, SummaryDays) # {}
    /\ last.result.responseRate.t = "number"
    /\ last.result.responseRate.n > 0
    /\ last.result.activeTemplates.n < Cardinality(getTemplates(templates, DemoUser.id))

----------------------------------------------------------------------------
(* Template improvement                                                    *)

Improve == "POST /api/ai/improve-template/:id"

\* C24: POST /api/ai/improve-template/:id hands to improveTemplate one
\* feedback record for every stored response whose templateId is :id, and
\* for no other response, whatever requests came before.
C24_AllTemplateResponses ==
    [][(Serves(Improve) /\ last'.status = 200)
         => DOMAIN last'.feedbackData
              = {r \in DOMAIN responses : responses[r].templateId = Str(last'.id)}]_vars

----------------------------------------------------------------------------
(* Intake: validation                                                      *)

\* C25: a POST /api/inquiries whose body fails validation (content missing,
\* for example) is answered 400 and leaves every collection of the store as
\* it was.
C25_InvalidIntake ==
    [][(Serves(Intake) /\ ~ValidInquiryBody(last'.body))
         => /\ last'.status = 400
            /\ UNCHANGED <<users, templates, inquiries, responses, integrations,
                           analytics>>]_vars

\* a body without content was classified by the provider and then refused
C25_Witness ==
    /\ last.op = Intake
    /\ last.status = 400
    /\ "content" \notin DOMAIN last.body
    /\ last.classify.kind = "object"
    /\ inquiries = EmptyObject

----------------------------------------------------------------------------
(* Ownership                                                               *)

\* C29: in every state reached through REST requests, whatever their
\* bodies, every stored template, inquiry and integration carries the demo
\* owner's id as its userId.
C29_OwnedByDemoUser ==
    /\ \A i \in DOMAIN templates : templates[i].userId = DemoUser.id
    /\ \A i \in DOMAIN inquiries : inquiries[i].userId = DemoUser.id
    /\ \A i \in DOMAIN integrations : integrations[i].userId = DemoUser.id

----------------------------------------------------------------------------
(* Records are kept                                                        *)

\* C26: the ids of the stored users, inquiries, responses, integrations and
\* analytics never become fewer; a template is the only record ever removed,
\* and only by deleteTemplate, which removes the one it names.
C26_OnlyTemplatesRemoved ==
    [][/\ DOMAIN users \subseteq DOMAIN users'
       /\ DOMAIN inquiries \subseteq DOMAIN inquiries'
       /\ DOMAIN responses \subseteq DOMAIN responses'
       /\ DOMAIN integrations \subseteq DOMAIN integrations'
       /\ DOMAIN analytics \subseteq DOMAIN analytics'
       /\ (DOMAIN templates \ DOMAIN templates' # {})
            => /\ requests' = requests + 1
               /\ last'.op = "deleteTemplate"
               /\ DOMAIN templates \ DOMAIN templates' = {last'.id}]_vars

\* a record was created, then a demo template deleted: the template is gone,
\* the record created before is still stored
C26_Witness ==
    /\ last.op = "deleteTemplate"
    /\ last.id \in DOMAIN DemoTemplates
    /\ last.id \notin DOMAIN templates
    /\ randomUUID(nextId) \in DOMAIN users \cup DOMAIN inquiries \cup DOMAIN responses
                                \cup DOMAIN integrations \cup DOMAIN analytics
    /\ nextId > 6 + DemoDays

----------------------------------------------------------------------------
(* Intake requests served concurrently                                     *)

\* the automated responses stored for template T
AutomatedFor(T) ==
    {r \in DOMAIN responses : /\ responses[r].templateId = Str(T)
                              /\ responses[r].isAutomated = Bool(TRUE)}

\* C27: whatever the interleaving of the intake requests in flight, once all
\* of them have completed a template's timesUsed is its initial value plus
\* the number of automated responses stored for it: no increment is lost.
C27_NoLostIncrement ==
    inflight = EmptyObject
        => \A T \in DOMAIN templates :
              Count(templates[T].timesUsed)
                = Count(DemoTemplates[T].timesUsed) + Cardinality(AutomatedFor(T))

\* C28: under any interleaving of intake with DELETE /api/templates/:id,
\* every automated response intake stores names a template that exists at
\* the moment the response is stored, and the usage-counter update never
\* brings a deleted template back.
C28_TemplateExistsWhenStored ==
    [][/\ \A r \in NewResponses : responses'[r].templateId.s \in DOMAIN templates
       /\ DOMAIN templates' \subseteq DOMAIN templates]_vars

\* C30: every response stored by intake carries the id of an inquiry that
\* was in the store before the response was stored, and that inquiry is in
\* the store in every later state.
C30_InquiryBeforeResponse ==
    [][/\ \A r \in NewResponses : responses'[r].inquiryId.s \in DOMAIN inquiries
       /\ DOMAIN inquiries \subseteq DOMAIN inquiries'
       /\ \A r \in DOMAIN responses :
             /\ r \in DOMAIN responses'
             /\ responses'[r].inquiryId = responses[r].inquiryId]_vars

\* two intake requests were in flight together: both inquiries were stored
\* before either response, and each response is filed under its own inquiry
C30_Witness ==
    /\ inflight = EmptyObject
    /\ Cardinality(DOMAIN responses) = 2
    /\ \A r \in DOMAIN responses : responses[r].inquiryId.s \in DOMAIN inquiries
    /\ \E r1, r2 \in DOMAIN responses : responses[r1].inquiryId # responses[r2].inquiryId
    /\ DOMAIN inquiries = {randomUUID(nextId - 3), randomUUID(nextId - 2)}
    /\ DOMAIN responses = {randomUUID(nextId - 1), randomUUID(nextId)}

====
